---- MODULE Spec2Model ----
(***************************************************************************)
(* rustify: the Option (Some / None) and Result (Ok / Err) containers of   *)
(* src/src/lib/option.ts and src/unnamed/part_001 (result.ts).             *)
(*                                                                         *)
(* A JavaScript object is a TLA+ function from its own property names to   *)
(* their values: the data properties (type, value, error) hold JavaScript  *)
(* values, the method properties hold the identity of the module-level     *)
(* function they are bound to.  A JavaScript value is a tuple: a primitive *)
(* is the one-element tuple of its literal, an array of two elements is    *)
(* the pair of its elements.                                               *)
(***************************************************************************)
EXTENDS Naturals, Sequences, FiniteSets

VARIABLES obj, origin, hist, call, out

vars == <<obj, origin, hist, call, out>>

(***************************************************************************)
(* Bounds of the model.                                                    *)
(***************************************************************************)
\* longest chain of calls that replace the held object by their result
MaxChain == 2

\* deepest nesting of the arrays that zip builds
MaxDepth == 2

(***************************************************************************)
(* JavaScript values.                                                      *)
(***************************************************************************)
Undefined == <<"undefined">>
Null      == <<"null">>
Num0      == <<"0">>
Num1      == <<"1">>
StrEmpty  == <<"''">>
StrA      == <<"'a'">>
False     == <<"false">>
True      == <<"true">>
Sym       == <<"Symbol(x)">>

Prims == {Undefined, Null, Num0, Num1, StrEmpty, StrA, False, True, Sym}

\* the two-element arrays used as payloads
Pairs == {<<Num0, Num1>>, <<Num1, Undefined>>}

Values == Prims \cup Pairs

IsPrim(v) == Len(v) = 1

IsNullish(v) == v = Undefined \/ v = Null

\* ToString of a primitive other than a symbol
PrimText(v) ==
    CASE v = Undefined -> "undefined"
      [] v = Null      -> "null"
      [] v = Num0      -> "0"
      [] v = Num1      -> "1"
      [] v = StrEmpty  -> ""
      [] v = StrA      -> "a"
      [] v = False     -> "false"
      [] v = True      -> "true"

\* the abstract operation ToString applied by the + of a string and a value:
\* it has no result for a symbol, alone or in an array (a TypeError is thrown)
RECURSIVE CanConvert(_)
CanConvert(v) ==
    IF IsPrim(v) THEN v # Sym ELSE CanConvert(v[1]) /\ CanConvert(v[2])

\* ToString of a value that can be converted; an array is joined with ",",
\* its undefined and null elements rendered as ""
RECURSIVE JSToString(_)
JSToString(v) ==
    IF IsPrim(v)
    THEN PrimText(v)
    ELSE (IF IsNullish(v[1]) THEN "" ELSE JSToString(v[1])) \o ","
         \o (IF IsNullish(v[2]) THEN "" ELSE JSToString(v[2]))

\* String(v): the textual form of a value, defined for a symbol as well
TextualForm(v) == IF v = Sym THEN "Symbol(x)" ELSE JSToString(v)

(***************************************************************************)
(* Failures and outcomes of a call.                                        *)
(***************************************************************************)
\* new Error(message)
NewError(message) == [class |-> "Error", message |-> message]

\* a TypeError raised by the language itself
NewTypeError(message) == [class |-> "TypeError", message |-> message]

\* throw of a primitive string: the thrown value is the string itself
ThrownString(s) == [class |-> "string", message |-> s]

\* one invocation of a caller-supplied function (or of console.warn)
Invocation(fn, args) == [fn |-> fn, args |-> args]

Return(v, log)       == [kind |-> "return", value |-> v, log |-> log]
ReturnObject(o, log) == [kind |-> "return", object |-> o, log |-> log]
ReturnArray(os, log) == [kind |-> "return", array |-> os, log |-> log]
Throw(t, log)        == [kind |-> "throw", thrown |-> t, log |-> log]

\* { ...a, ...b }: the own properties of a, overridden by those of b
Spread(a, b) ==
    [k \in DOMAIN a \cup DOMAIN b |-> IF k \in DOMAIN b THEN b[k] ELSE a[k]]

\* o.k for a property that may be missing
Get(o, k) == IF k \in DOMAIN o THEN o[k] ELSE Undefined

\* o.type, the tag of a record ("undefined" when the property is missing)
Tag(o) == IF "type" \in DOMAIN o THEN o["type"] ELSE "undefined"

Bool(b) == IF b THEN True ELSE False

(***************************************************************************)
(* Callbacks.  A mapper, predicate or Option-returning mapper is named; a  *)
(* supplier () => e is given by the value e it returns.                    *)
(***************************************************************************)
Mappers == {"toNull", "identity", "negate"}

ApplyMapper(f, v) ==
    CASE f = "toNull"   -> Null
      [] f = "identity" -> v
      [] f = "negate"   -> IF v = Num0 THEN Num1 ELSE IF v = Num1 THEN Num0 ELSE Undefined

Predicates == {"isNumber", "always"}

ApplyPredicate(p, v) ==
    CASE p = "isNumber" -> v \in {Num0, Num1}
      [] p = "always"   -> TRUE

(***************************************************************************)
(* option.ts                                                               *)
(***************************************************************************)
createBaseOption ==
    [some |-> "option.some", none |-> "option.none",
     unwrap |-> "option.unwrap", unwrapOr |-> "option.unwrapOr",
     unwrapOrGet |-> "option.unwrapOrGet", expect |-> "option.expect",
     match |-> "option.match", map |-> "option.map", mapOr |-> "option.mapOr",
     flatMap |-> "option.flatMap", mapOrElse |-> "option.mapOrElse",
     inspect |-> "option.inspect", ok |-> "option.ok", okOr |-> "option.okOr",
     okOrElse |-> "option.okOrElse", and |-> "option.and", or |-> "option.or",
     orElse |-> "option.orElse", xor |-> "option.xor",
     filter |-> "option.filter", zip |-> "option.zip", unzip |-> "option.unzip"]

\* console.warn of Some for an undefined or null payload
SomeWarn(value) ==
    IF value = Undefined \/ value = Null
    THEN <<Invocation("console.warn", <<value>>)>>
    ELSE <<>>

Some(value) == Spread([type |-> "some", value |-> value], createBaseOption)

None == Spread([type |-> "none"], createBaseOption)

\* Maybe that tests the truthiness of the value: 0, '' and false give None
Maybe_truthy(value) ==
    IF value \in {Undefined, Null, Num0, StrEmpty, False} THEN None ELSE Some(value)

Maybe(value) ==
    IF value = Undefined \/ value = Null THEN None ELSE Some(value)

(***************************************************************************)
(* result.ts                                                               *)
(***************************************************************************)
createBaseResult ==
    [ok |-> "result.ok", err |-> "result.err", get |-> "result.get",
     fail |-> "result.fail", unwrap |-> "result.unwrap",
     unwrapOr |-> "result.unwrapOr", unwrapOrGet |-> "result.unwrapOrGet",
     expect |-> "result.expect"]

Ok(value) == Spread([type |-> "ok", value |-> value], createBaseResult)

Err(error) == Spread([type |-> "err", error |-> error], createBaseResult)

Result_ok(this) == Return(Bool(Tag(this) = "ok"), <<>>)

Result_err(this) == Return(Bool(Tag(this) = "err"), <<>>)

Result_get(this) ==
    IF Tag(this) = "ok"
    THEN ReturnObject(Some(Get(this, "value")), SomeWarn(Get(this, "value")))
    ELSE ReturnObject(None, <<>>)

\* Result.fail that wraps the error with Maybe: a valueless Err gives None
Result_fail_maybe(this) ==
    IF Tag(this) = "err"
    THEN ReturnObject(Maybe(Get(this, "error")), <<>>)
    ELSE ReturnObject(None, <<>>)

Result_fail(this) ==
    IF Tag(this) = "err"
    THEN ReturnObject(Some(Get(this, "error")), SomeWarn(Get(this, "error")))
    ELSE ReturnObject(None, <<>>)

\* the fixed part of the message of Result.unwrap (the backquotes of the
\* source text are written as ')
UnwrapOnErrPrefix == "Called 'unwrap()' on an 'Err' 'Result' value with: "

Result_unwrap(this) ==
    IF Tag(this) = "ok"
    THEN Return(Get(this, "value"), <<>>)
    ELSE IF CanConvert(Get(this, "error"))
         THEN Throw(NewError(UnwrapOnErrPrefix \o JSToString(Get(this, "error"))), <<>>)
         ELSE Throw(NewTypeError("Cannot convert a Symbol value to a string"), <<>>)

Result_unwrapOr(this, def) ==
    IF Tag(this) = "ok" THEN Return(Get(this, "value"), <<>>) ELSE Return(def, <<>>)

Result_unwrapOrGet(this, supplier) ==
    IF Tag(this) = "ok"
    THEN Return(Get(this, "value"), <<>>)
    ELSE Return(supplier, <<Invocation("supplier", <<>>)>>)

\* Result.expect that adds the error to the caller's message
Result_expect_withError(this, msg) ==
    IF Tag(this) = "ok"
    THEN Return(Get(this, "value"), <<>>)
    ELSE Throw(ThrownString(msg \o ": " \o TextualForm(Get(this, "error"))), <<>>)

Result_expect(this, msg) ==
    IF Tag(this) = "ok"
    THEN Return(Get(this, "value"), <<>>)
    ELSE Throw(ThrownString(msg), <<>>)

resultFactory(result) == Spread(result, createBaseResult)

(***************************************************************************)
(* option.ts: the functions attached by createBaseOption.                  *)
(***************************************************************************)
FlatMappers == {"wrap", "drop"}

ApplyFlatMapper(f, v) ==
    CASE f = "wrap" -> Some(v)
      [] f = "drop" -> None

Option_some(this) == Return(Bool(Tag(this) = "some"), <<>>)

\* Option.none that tests for the tag of some()
Option_none_asSome(this) == Return(Bool(Tag(this) = "some"), <<>>)

Option_none(this) == Return(Bool(Tag(this) = "none"), <<>>)

\* the message of Option.unwrap (the backquotes of the source text are
\* written as ')
UnwrapOnNoneMessage == "Called 'unwrap()' on a 'None' 'Option' value"

\* Option.unwrap that reads the payload of a None instead of failing
Option_unwrap_lenient(this) == Return(Get(this, "value"), <<>>)

Option_unwrap(this) ==
    IF Tag(this) = "some"
    THEN Return(Get(this, "value"), <<>>)
    ELSE Throw(NewError(UnwrapOnNoneMessage), <<>>)

Option_unwrapOr(this, def) ==
    IF Tag(this) = "some" THEN Return(Get(this, "value"), <<>>) ELSE Return(def, <<>>)

\* Option.unwrapOrGet that evaluates the supplier before looking at the tag
Option_unwrapOrGet_eager(this, supplier) ==
    IF Tag(this) = "some"
    THEN Return(Get(this, "value"), <<Invocation("supplier", <<>>)>>)
    ELSE Return(supplier, <<Invocation("supplier", <<>>)>>)

Option_unwrapOrGet(this, supplier) ==
    IF Tag(this) = "some"
    THEN Return(Get(this, "value"), <<>>)
    ELSE Return(supplier, <<Invocation("supplier", <<>>)>>)

Option_expect(this, msg) ==
    IF Tag(this) = "some"
    THEN Return(Get(this, "value"), <<>>)
    ELSE Throw(ThrownString(msg), <<>>)

\* Option.match that evaluates both arms and picks one result
Option_match_both(this, matcherSome, matcherNone) ==
    LET log == <<Invocation("matcher.some", <<Get(this, "value")>>),
                 Invocation("matcher.none", <<>>)>>
    IN  IF Tag(this) = "some"
        THEN Return(ApplyMapper(matcherSome, Get(this, "value")), log)
        ELSE Return(matcherNone, log)

Option_match(this, matcherSome, matcherNone) ==
    IF Tag(this) = "some"
    THEN Return(ApplyMapper(matcherSome, Get(this, "value")),
                <<Invocation("matcher.some", <<Get(this, "value")>>)>>)
    ELSE Return(matcherNone, <<Invocation("matcher.none", <<>>)>>)

\* Option.map that maps a None as well, reading its missing payload
Option_map_always(this, mapper) ==
    LET r == ApplyMapper(mapper, Get(this, "value"))
    IN  ReturnObject(Some(r),
            <<Invocation("mapper", <<Get(this, "value")>>)>> \o SomeWarn(r))

Option_map(this, mapper) ==
    IF Tag(this) = "some"
    THEN LET r == ApplyMapper(mapper, Get(this, "value"))
         IN  ReturnObject(Some(r),
                 <<Invocation("mapper", <<Get(this, "value")>>)>> \o SomeWarn(r))
    ELSE ReturnObject(None, <<>>)

\* Option.mapOr that returns the fallback itself, not wrapped in Some
Option_mapOr_raw(this, mapper, value) ==
    IF Tag(this) = "some"
    THEN LET r == ApplyMapper(mapper, Get(this, "value"))
         IN  ReturnObject(Some(r),
                 <<Invocation("mapper", <<Get(this, "value")>>)>> \o SomeWarn(r))
    ELSE Return(value, <<>>)

Option_mapOr(this, mapper, value) ==
    IF Tag(this) = "some"
    THEN LET r == ApplyMapper(mapper, Get(this, "value"))
         IN  ReturnObject(Some(r),
                 <<Invocation("mapper", <<Get(this, "value")>>)>> \o SomeWarn(r))
    ELSE ReturnObject(Some(value), SomeWarn(value))

\* Option.flatMap that wraps the payload of the mapper's Option in a new Some
Option_flatMap_rewrapped(this, mapper) ==
    IF Tag(this) = "some"
    THEN LET r == ApplyFlatMapper(mapper, Get(this, "value"))
         IN  ReturnObject(Some(Get(r, "value")),
                 <<Invocation("mapper", <<Get(this, "value")>>)>>
                 \o SomeWarn(Get(r, "value")))
    ELSE ReturnObject(None, <<>>)

Option_flatMap(this, mapper) ==
    IF Tag(this) = "some"
    THEN LET r == ApplyFlatMapper(mapper, Get(this, "value"))
         IN  ReturnObject(r,
                 <<Invocation("mapper", <<Get(this, "value")>>)>>
                 \o (IF mapper = "wrap" THEN SomeWarn(Get(this, "value")) ELSE <<>>))
    ELSE ReturnObject(None, <<>>)

Option_mapOrElse(this, mapper, supplier) ==
    IF Tag(this) = "some"
    THEN LET r == ApplyMapper(mapper, Get(this, "value"))
         IN  ReturnObject(Some(r),
                 <<Invocation("mapper", <<Get(this, "value")>>)>> \o SomeWarn(r))
    ELSE ReturnObject(Some(supplier),
             <<Invocation("supplier", <<>>)>> \o SomeWarn(supplier))

\* Option.inspect that calls back on a None as well
Option_inspect_always(this) ==
    ReturnObject(this, <<Invocation("callback", <<Get(this, "value")>>)>>)

Option_inspect(this) ==
    IF Tag(this) = "some"
    THEN ReturnObject(this, <<Invocation("callback", <<Get(this, "value")>>)>>)
    ELSE ReturnObject(this, <<>>)

\* Option.ok that uses null, not undefined, as the error of a None
Option_ok_nullError(this) ==
    IF Tag(this) = "some"
    THEN ReturnObject(Ok(Get(this, "value")), <<>>)
    ELSE ReturnObject(Err(Null), <<>>)

Option_ok(this) ==
    IF Tag(this) = "some"
    THEN ReturnObject(Ok(Get(this, "value")), <<>>)
    ELSE ReturnObject(Err(Undefined), <<>>)

Option_okOr(this, error) ==
    IF Tag(this) = "some"
    THEN ReturnObject(Ok(Get(this, "value")), <<>>)
    ELSE ReturnObject(Err(error), <<>>)

\* Option.okOrElse that never calls its supplier
Option_okOrElse_unsupplied(this, error) ==
    IF Tag(this) = "some"
    THEN ReturnObject(Ok(Get(this, "value")), <<>>)
    ELSE ReturnObject(Err(Undefined), <<>>)

Option_okOrElse(this, error) ==
    IF Tag(this) = "some"
    THEN ReturnObject(Ok(Get(this, "value")), <<>>)
    ELSE ReturnObject(Err(error), <<Invocation("supplier", <<>>)>>)

\* Option.and that returns the receiver instead of the other operand
Option_and_receiver(this, other) ==
    IF Tag(this) = "some" THEN ReturnObject(this, <<>>) ELSE ReturnObject(None, <<>>)

Option_and(this, other) ==
    IF Tag(this) = "some" THEN ReturnObject(other, <<>>) ELSE ReturnObject(None, <<>>)

Option_or(this, other) ==
    IF Tag(this) = "some" THEN ReturnObject(this, <<>>) ELSE ReturnObject(other, <<>>)

Option_orElse(this, other) ==
    IF Tag(this) = "some"
    THEN ReturnObject(this, <<>>)
    ELSE ReturnObject(other, <<Invocation("supplier", <<>>)>>)

\* Option.xor that keeps the receiver when both operands are Some
Option_xor_keepBoth(this, other) ==
    IF Tag(this) = "some"
    THEN ReturnObject(this, <<>>)
    ELSE IF Tag(other) = "some"
         THEN ReturnObject(other, <<>>)
         ELSE ReturnObject(None, <<>>)

Option_xor(this, other) ==
    IF Tag(this) = "some" /\ Tag(other) = "none"
    THEN ReturnObject(this, <<>>)
    ELSE IF Tag(this) = "none" /\ Tag(other) = "some"
         THEN ReturnObject(other, <<>>)
         ELSE ReturnObject(None, <<>>)

\* Option.filter that tests the payload before the tag, on a None as well
Option_filter_eager(this, predicate) ==
    IF ApplyPredicate(predicate, Get(this, "value")) /\ Tag(this) = "some"
    THEN ReturnObject(this, <<Invocation("predicate", <<Get(this, "value")>>)>>)
    ELSE ReturnObject(None, <<Invocation("predicate", <<Get(this, "value")>>)>>)

Option_filter(this, predicate) ==
    IF Tag(this) = "some"
    THEN IF ApplyPredicate(predicate, Get(this, "value"))
         THEN ReturnObject(this, <<Invocation("predicate", <<Get(this, "value")>>)>>)
         ELSE ReturnObject(None, <<Invocation("predicate", <<Get(this, "value")>>)>>)
    ELSE ReturnObject(None, <<>>)

\* Option.zip that pairs the payloads in the wrong order
Option_zip_swapped(this, other) ==
    IF Tag(this) = "some" /\ Tag(other) = "some"
    THEN ReturnObject(Some(<<Get(other, "value"), Get(this, "value")>>), <<>>)
    ELSE ReturnObject(None, <<>>)

Option_zip(this, other) ==
    IF Tag(this) = "some" /\ Tag(other) = "some"
    THEN ReturnObject(Some(<<Get(this, "value"), Get(other, "value")>>), <<>>)
    ELSE ReturnObject(None, <<>>)

\* const [valueT, valueU] = v: arrays and strings are iterable, the other
\* primitives are not (the destructuring throws a TypeError)
IsIterable(v) == ~IsPrim(v) \/ v \in {StrEmpty, StrA}

Element(v, i) ==
    IF ~IsPrim(v) THEN v[i]
    ELSE IF v = StrA /\ i = 1 THEN StrA ELSE Undefined

Option_unzip(this) ==
    IF Tag(this) = "some"
    THEN IF IsIterable(Get(this, "value"))
         THEN LET valueT == Element(Get(this, "value"), 1)
                  valueU == Element(Get(this, "value"), 2)
              IN  ReturnArray(<<Some(valueT), Some(valueU)>>,
                              SomeWarn(valueT) \o SomeWarn(valueU))
         ELSE Throw(NewTypeError("this.value is not iterable"), <<>>)
    ELSE ReturnArray(<<None, None>>, <<>>)

\* optionFactory written { option, ...createBaseOption() }: the record is
\* stored as a property instead of being spread
optionFactory_nested(option) == Spread([option |-> option], createBaseOption)

\* optionFactory that copies the record and attaches nothing
optionFactory_copy(option) == option

optionFactory(option) == Spread(option, createBaseOption)

(***************************************************************************)
(* A method call o.m(...): the property m of o is looked up and the        *)
(* function it holds is applied with this = o.                             *)
(***************************************************************************)
NoObject == [type |-> "-"]

\* the arguments of a call: a value (default, error, supplied value), a
\* message, a named callback and another Option
Args(val, msg, fn, other) == [val |-> val, msg |-> msg, fn |-> fn, other |-> other]

NoArgs == Args(Undefined, "", "", NoObject)

Invoke(o, m, a) ==
    IF m \notin DOMAIN o
    THEN Throw(NewTypeError(m \o " is not a function"), <<>>)
    ELSE CASE o[m] = "option.some"        -> Option_some(o)
           [] o[m] = "option.none"        -> Option_none(o)
           [] o[m] = "option.unwrap"      -> Option_unwrap(o)
           [] o[m] = "option.unwrapOr"    -> Option_unwrapOr(o, a.val)
           [] o[m] = "option.unwrapOrGet" -> Option_unwrapOrGet(o, a.val)
           [] o[m] = "option.expect"      -> Option_expect(o, a.msg)
           [] o[m] = "option.match"       -> Option_match(o, a.fn, a.val)
           [] o[m] = "option.map"         -> Option_map(o, a.fn)
           [] o[m] = "option.mapOr"       -> Option_mapOr(o, a.fn, a.val)
           [] o[m] = "option.flatMap"     -> Option_flatMap(o, a.fn)
           [] o[m] = "option.mapOrElse"   -> Option_mapOrElse(o, a.fn, a.val)
           [] o[m] = "option.inspect"     -> Option_inspect(o)
           [] o[m] = "option.ok"          -> Option_ok(o)
           [] o[m] = "option.okOr"        -> Option_okOr(o, a.val)
           [] o[m] = "option.okOrElse"    -> Option_okOrElse(o, a.val)
           [] o[m] = "option.and"         -> Option_and(o, a.other)
           [] o[m] = "option.or"          -> Option_or(o, a.other)
           [] o[m] = "option.orElse"      -> Option_orElse(o, a.other)
           [] o[m] = "option.xor"         -> Option_xor(o, a.other)
           [] o[m] = "option.filter"      -> Option_filter(o, a.fn)
           [] o[m] = "option.zip"         -> Option_zip(o, a.other)
           [] o[m] = "option.unzip"       -> Option_unzip(o)
           [] o[m] = "result.ok"          -> Result_ok(o)
           [] o[m] = "result.err"         -> Result_err(o)
           [] o[m] = "result.get"         -> Result_get(o)
           [] o[m] = "result.fail"        -> Result_fail(o)
           [] o[m] = "result.unwrap"      -> Result_unwrap(o)
           [] o[m] = "result.unwrapOr"    -> Result_unwrapOr(o, a.val)
           [] o[m] = "result.unwrapOrGet" -> Result_unwrapOrGet(o, a.val)
           [] o[m] = "result.expect"      -> Result_expect(o, a.msg)

IsOption(o) == Tag(o) \in {"some", "none"}

IsResult(o) == Tag(o) \in {"ok", "err"}

ReturnsObject(r) == r.kind = "return" /\ "object" \in DOMAIN r

(***************************************************************************)
(* The state: a program holds one object, obj, and calls the library on    *)
(* it; a call that returns an Option or a Result replaces obj by it.       *)
(*   origin  the object the present run of conversions started from        *)
(*   hist    the conversions (ok, get, fail, rehydration) applied to       *)
(*           origin since, which led to obj                                *)
(*   call    the last call: operation, receiver or argument object, and    *)
(*           arguments                                                     *)
(*   out     the outcome of the last call                                  *)
(***************************************************************************)
\* values passed as default, fallback, error or returned by a supplier
Operands == {Num1, StrA}

\* messages passed to expect
Messages == {"boom", ""}

\* Options passed as the other operand, or returned by a supplier of orElse
Others == {Some(Num1), None}

CallOf(op, recv, a) ==
    [op |-> op, recv |-> recv, val |-> a.val, msg |-> a.msg, fn |-> a.fn,
     other |-> a.other]

\* a constructor call, or the arrival of a record from a boundary
Construct(op, o, a, log) ==
    /\ obj' = o
    /\ origin' = o
    /\ hist' = <<>>
    /\ call' = CallOf(op, NoObject, a)
    /\ out' = ReturnObject(o, log)

\* a call on obj with outcome r; conv tells a conversion from any other call
Apply(op, a, r, conv) ==
    /\ call' = CallOf(op, obj, a)
    /\ out' = r
    /\ IF ReturnsObject(r)
       THEN /\ obj' = r.object
            /\ IF conv /\ Len(hist) < MaxChain
               THEN hist' = Append(hist, op) /\ UNCHANGED origin
               ELSE hist' = <<>> /\ origin' = r.object
       ELSE UNCHANGED <<obj, origin, hist>>

Method(m, a, conv) == Apply(m, a, Invoke(obj, m, a), conv)

Init ==
    /\ obj = None
    /\ origin = None
    /\ hist = <<>>
    /\ call = CallOf("None", NoObject, NoArgs)
    /\ out = ReturnObject(None, <<>>)

NewSome == \E v \in Values :
    Construct("Some", Some(v), Args(v, "", "", NoObject), SomeWarn(v))

NewNone == Construct("None", None, NoArgs, <<>>)

NewMaybe == \E v \in Values :
    Construct("Maybe", Maybe(v), Args(v, "", "", NoObject), <<>>)

NewOk == \E v \in Values :
    Construct("Ok", Ok(v), Args(v, "", "", NoObject), <<>>)

NewErr == \E e \in Values :
    Construct("Err", Err(e), Args(e, "", "", NoObject), <<>>)

\* a record that crossed a boundary: tag and payload, no attached functions
ReceiveOption == \E o \in {[type |-> "some", value |-> v] : v \in Values}
                          \cup {[type |-> "none"]} :
    Construct("receive", o, NoArgs, <<>>)

ReceiveResult == \E o \in {[type |-> "ok", value |-> v] : v \in Values}
                          \cup {[type |-> "err", error |-> e] : e \in Values} :
    Construct("receive", o, NoArgs, <<>>)

CallOptionFactory ==
    /\ IsOption(obj)
    /\ Apply("optionFactory", NoArgs, ReturnObject(optionFactory(obj), <<>>), TRUE)

CallResultFactory ==
    /\ IsResult(obj)
    /\ Apply("resultFactory", NoArgs, ReturnObject(resultFactory(obj), <<>>), TRUE)

CallSome == IsOption(obj) /\ Method("some", NoArgs, FALSE)

CallNone == IsOption(obj) /\ Method("none", NoArgs, FALSE)

CallUnwrap == IsOption(obj) /\ Method("unwrap", NoArgs, FALSE)

CallUnwrapOr == \E def \in Operands :
    IsOption(obj) /\ Method("unwrapOr", Args(def, "", "", NoObject), FALSE)

CallUnwrapOrGet == \E supplied \in Operands :
    IsOption(obj) /\ Method("unwrapOrGet", Args(supplied, "", "", NoObject), FALSE)

CallExpect == \E msg \in Messages :
    IsOption(obj) /\ Method("expect", Args(Undefined, msg, "", NoObject), FALSE)

CallMatch == \E f \in Mappers, supplied \in Operands :
    IsOption(obj) /\ Method("match", Args(supplied, "", f, NoObject), FALSE)

CallMap == \E f \in Mappers :
    IsOption(obj) /\ Method("map", Args(Undefined, "", f, NoObject), FALSE)

CallMapOr == \E f \in Mappers, value \in Operands :
    IsOption(obj) /\ Method("mapOr", Args(value, "", f, NoObject), FALSE)

CallFlatMap == \E f \in FlatMappers :
    IsOption(obj) /\ Method("flatMap", Args(Undefined, "", f, NoObject), FALSE)

CallMapOrElse == \E f \in Mappers, supplied \in Operands :
    IsOption(obj) /\ Method("mapOrElse", Args(supplied, "", f, NoObject), FALSE)

CallInspect == IsOption(obj) /\ Method("inspect", NoArgs, FALSE)

CallOk == IsOption(obj) /\ Method("ok", NoArgs, TRUE)

CallOkOr == \E error \in Operands :
    IsOption(obj) /\ Method("okOr", Args(error, "", "", NoObject), FALSE)

CallOkOrElse == \E supplied \in Operands :
    IsOption(obj) /\ Method("okOrElse", Args(supplied, "", "", NoObject), FALSE)

CallAnd == \E other \in Others :
    IsOption(obj) /\ Method("and", Args(Undefined, "", "", other), FALSE)

CallOr == \E other \in Others :
    IsOption(obj) /\ Method("or", Args(Undefined, "", "", other), FALSE)

CallOrElse == \E other \in Others :
    IsOption(obj) /\ Method("orElse", Args(Undefined, "", "", other), FALSE)

CallXor == \E other \in Others :
    IsOption(obj) /\ Method("xor", Args(Undefined, "", "", other), FALSE)

CallFilter == \E p \in Predicates :
    IsOption(obj) /\ Method("filter", Args(Undefined, "", p, NoObject), FALSE)

\* the nesting of arrays in a value
RECURSIVE Depth(_)
Depth(v) ==
    IF IsPrim(v) THEN 0
    ELSE 1 + (IF Depth(v[1]) > Depth(v[2]) THEN Depth(v[1]) ELSE Depth(v[2]))

\* zip nests its receiver's payload in a new array, up to MaxDepth
CallZip == \E other \in Others :
    /\ IsOption(obj)
    /\ Depth(Get(obj, "value")) < MaxDepth
    /\ Method("zip", Args(Undefined, "", "", other), FALSE)

CallUnzip == IsOption(obj) /\ Method("unzip", NoArgs, FALSE)

CallResultOk == IsResult(obj) /\ Method("ok", NoArgs, FALSE)

CallResultErr == IsResult(obj) /\ Method("err", NoArgs, FALSE)

CallGet == IsResult(obj) /\ Method("get", NoArgs, TRUE)

CallFail == IsResult(obj) /\ Method("fail", NoArgs, TRUE)

CallResultUnwrap == IsResult(obj) /\ Method("unwrap", NoArgs, FALSE)

CallResultUnwrapOr == \E def \in Operands :
    IsResult(obj) /\ Method("unwrapOr", Args(def, "", "", NoObject), FALSE)

CallResultUnwrapOrGet == \E supplied \in Operands :
    IsResult(obj) /\ Method("unwrapOrGet", Args(supplied, "", "", NoObject), FALSE)

CallResultExpect == \E msg \in Messages :
    IsResult(obj) /\ Method("expect", Args(Undefined, msg, "", NoObject), FALSE)

Next ==
    \/ NewSome \/ NewNone \/ NewMaybe \/ NewOk \/ NewErr
    \/ ReceiveOption \/ ReceiveResult
    \/ CallOptionFactory \/ CallResultFactory
    \/ CallSome \/ CallNone \/ CallUnwrap \/ CallUnwrapOr \/ CallUnwrapOrGet
    \/ CallExpect \/ CallMatch \/ CallMap \/ CallMapOr \/ CallFlatMap
    \/ CallMapOrElse \/ CallInspect \/ CallOk \/ CallOkOr \/ CallOkOrElse
    \/ CallAnd \/ CallOr \/ CallOrElse \/ CallXor \/ CallFilter \/ CallZip
    \/ CallUnzip
    \/ CallResultOk \/ CallResultErr \/ CallGet \/ CallFail
    \/ CallResultUnwrap \/ CallResultUnwrapOr \/ CallResultUnwrapOrGet
    \/ CallResultExpect

Spec == Init /\ [][Next]_vars

(***************************************************************************)
(* Properties.                                                             *)
(***************************************************************************)
\* an Option / a Result that carries the functions of its family
IsCapableOption(o) ==
    /\ IsOption(o)
    /\ \A m \in DOMAIN createBaseOption : m \in DOMAIN o /\ o[m] = createBaseOption[m]

IsCapableResult(o) ==
    /\ IsResult(o)
    /\ \A m \in DOMAIN createBaseResult : m \in DOMAIN o /\ o[m] = createBaseResult[m]

IsCapable(o) == IsCapableOption(o) \/ IsCapableResult(o)

\* the number of invocations of fn recorded in a log
Count(log, fn) == Cardinality({i \in DOMAIN log : log[i].fn = fn})

\* C1: Option.unwrap returns the payload of a Some, and on a None fails with
\* an Error that has the fixed message and nothing else.
C1_OptionUnwrap ==
    (call.op = "unwrap" /\ IsCapableOption(call.recv)) =>
        IF Tag(call.recv) = "some"
        THEN out = Return(call.recv.value, <<>>)
        ELSE /\ out.kind = "throw"
             /\ out.thrown = [class |-> "Error", message |-> UnwrapOnNoneMessage]

C1_Witness ==
    /\ call.op = "unwrap"
    /\ call.recv = None
    /\ out.kind = "throw"
    /\ out.thrown.message = UnwrapOnNoneMessage

\* C2: Result.unwrap returns the payload of an Ok, and on an Err(e) fails with
\* the Error whose message contains the textual form of e, for every e.
C2_ResultUnwrap ==
    (call.op = "unwrap" /\ IsCapableResult(call.recv)) =>
        IF Tag(call.recv) = "ok"
        THEN out = Return(call.recv.value, <<>>)
        ELSE /\ out.kind = "throw"
             /\ out.thrown.class = "Error"
             /\ out.thrown.message = UnwrapOnErrPrefix \o TextualForm(call.recv.error)

\* C3: expect returns the payload of a Some / an Ok and raises nothing; on a
\* None / an Err it throws the caller's message, nothing added, whatever the
\* error payload is.
C3_Expect ==
    (call.op = "expect" /\ IsCapable(call.recv)) =>
        IF Tag(call.recv) \in {"some", "ok"}
        THEN out = Return(call.recv.value, <<>>)
        ELSE /\ out.kind = "throw"
             /\ out.thrown = ThrownString(call.msg)
             /\ out.log = <<>>

C3_Witness ==
    /\ call.op = "expect"
    /\ Tag(call.recv) = "err"
    /\ call.recv.error = StrA
    /\ call.msg = "boom"
    /\ out.kind = "throw"
    /\ out.thrown.message = "boom"

Constructors == {"Some", "None", "Maybe", "Ok", "Err"}

Factories == {"optionFactory", "resultFactory"}

\* C4: the constructors and the rehydration functions never fail, and a call
\* on an Option or a Result fails only when it is unwrap or expect on a None
\* or an Err.
C4_Totality ==
    /\ call.op \in Constructors \cup Factories => out.kind = "return"
    /\ (IsCapable(call.recv) /\ call.op \notin Factories /\ out.kind = "throw") =>
           /\ call.op \in {"unwrap", "expect"}
           /\ Tag(call.recv) \in {"none", "err"}

\* C5: a lazy supplier is invoked once on None / Err and not at all on
\* Some / Ok.
C5_LazySuppliers ==
    (/\ call.op \in {"unwrapOrGet", "orElse", "okOrElse", "mapOrElse"}
     /\ IsCapable(call.recv)) =>
        /\ out.kind = "return"
        /\ Count(out.log, "supplier") =
               IF Tag(call.recv) \in {"none", "err"} THEN 1 ELSE 0

C5_Witness ==
    /\ call.op = "unwrapOrGet"
    /\ call.recv = None
    /\ out.kind = "return"
    /\ Count(out.log, "supplier") = 1
    /\ out.value = call.val

\* C6: map on Some(v) gives Some(f(v)) and invokes f once, with v; map on
\* None gives None and does not invoke f.
C6_Map ==
    (call.op = "map" /\ IsCapableOption(call.recv)) =>
        /\ ReturnsObject(out)
        /\ IF Tag(call.recv) = "some"
           THEN /\ out.object = Some(ApplyMapper(call.fn, call.recv.value))
                /\ Count(out.log, "mapper") = 1
                /\ out.log[1] = Invocation("mapper", <<call.recv.value>>)
           ELSE /\ out.object = None
                /\ Count(out.log, "mapper") = 0

C6_Witness ==
    /\ call.op = "map"
    /\ call.fn = "negate"
    /\ call.recv = Some(Num0)
    /\ ReturnsObject(out)
    /\ out.object = Some(Num1)
    /\ Count(out.log, "mapper") = 1

\* C7: Some(v).ok().get() is Some(v) again and its unwrap() is v; None().ok()
\* is an Err, and None().ok().fail() is a Some whose unwrap() is the error of
\* a valueless Err().
C7_OptionResultRoundTrip ==
    IsCapableOption(origin) =>
        /\ (Tag(origin) = "some" /\ hist = <<"ok", "get">>) =>
               /\ Tag(obj) = "some"
               /\ obj.value = origin.value
               /\ call.op = "unwrap" => out = Return(origin.value, <<>>)
        /\ (Tag(origin) = "none" /\ hist = <<"ok">>) => Tag(obj) = "err"
        /\ (Tag(origin) = "none" /\ hist = <<"ok", "fail">>) =>
               /\ Tag(obj) = "some"
               /\ call.op = "unwrap" => out = Return(Err(Undefined).error, <<>>)

C7_Witness ==
    /\ origin = Some(Num1)
    /\ hist = <<"ok", "get">>
    /\ call.op = "unwrap"
    /\ call.recv = obj
    /\ out = Return(Num1, <<>>)

\* C8: okOrElse(() => e) and okOr(e) give the same Result: Ok(x) on Some(x),
\* Err(e) on None.
C8_OkOrAgree ==
    (call.op \in {"okOr", "okOrElse"} /\ IsCapableOption(call.recv)) =>
        LET a == Args(call.val, "", "", NoObject)
        IN  /\ ReturnsObject(out)
            /\ out.object = IF Tag(call.recv) = "some"
                            THEN Ok(call.recv.value)
                            ELSE Err(call.val)
            /\ Invoke(call.recv, "okOrElse", a).object
                   = Invoke(call.recv, "okOr", a).object

C8_Witness ==
    /\ call.op = "okOrElse"
    /\ call.recv = None
    /\ call.val = StrA
    /\ ReturnsObject(out)
    /\ out.object = Err(StrA)

\* the callbacks a method takes
CallbacksOf(m) ==
    IF m \in {"match", "map", "mapOr", "mapOrElse"} THEN Mappers
    ELSE IF m = "flatMap" THEN FlatMappers
    ELSE IF m = "filter" THEN Predicates
    ELSE {""}

ArgumentsOf(m) ==
    {Args(v, msg, f, o) :
        v \in Operands, msg \in Messages, f \in CallbacksOf(m), o \in Others}

\* a and b give the same outcome under every method of the base record
SameBehaviour(a, b, base) ==
    \A m \in DOMAIN base : \A args \in ArgumentsOf(m) :
        Invoke(a, m, args) = Invoke(b, m, args)

\* C9: rehydrating a rehydrated Option or Result gives an object with the same
\* tag and payload, which behaves the same under every combinator.
C9_RehydrationIdempotent ==
    /\ (call.op = "optionFactory" /\ ReturnsObject(out)) =>
           /\ optionFactory(out.object) = out.object
           /\ SameBehaviour(optionFactory(out.object), out.object, createBaseOption)
    /\ (call.op = "resultFactory" /\ ReturnsObject(out)) =>
           /\ resultFactory(out.object) = out.object
           /\ SameBehaviour(resultFactory(out.object), out.object, createBaseResult)
    /\ (/\ call.op \in Factories
        /\ Len(hist) >= 2
        /\ hist[Len(hist)] = call.op
        /\ hist[Len(hist) - 1] = call.op) => out.object = call.recv

C9_Witness ==
    /\ hist = <<"optionFactory", "optionFactory">>
    /\ call.op = "optionFactory"
    /\ Tag(origin) = "some"
    /\ ReturnsObject(out)
    /\ out.object = call.recv
    /\ obj = out.object

IsBareOption(o) ==
    \/ Tag(o) = "some" /\ DOMAIN o = {"type", "value"}
    \/ Tag(o) = "none" /\ DOMAIN o = {"type"}

IsBareResult(o) ==
    \/ Tag(o) = "ok" /\ DOMAIN o = {"type", "value"}
    \/ Tag(o) = "err" /\ DOMAIN o = {"type", "error"}

\* C10: rehydration keeps tag and payload; the rehydrated bare record equals
\* the value its constructor builds from the payload, with every combinator
\* callable and behaving as on that value; a constructed instance is
\* rehydrated to an equal value.
C10_Rehydration ==
    /\ call.op = "optionFactory" =>
           /\ ReturnsObject(out)
           /\ Tag(out.object) = Tag(call.recv)
           /\ Get(out.object, "value") = Get(call.recv, "value")
           /\ IsBareOption(call.recv) =>
                  LET built == IF Tag(call.recv) = "some"
                               THEN Some(call.recv.value) ELSE None
                  IN  /\ out.object = built
                      /\ IsCapableOption(out.object)
                      /\ SameBehaviour(out.object, built, createBaseOption)
           /\ IsCapableOption(call.recv) => out.object = call.recv
    /\ call.op = "resultFactory" =>
           /\ ReturnsObject(out)
           /\ Tag(out.object) = Tag(call.recv)
           /\ Get(out.object, "value") = Get(call.recv, "value")
           /\ Get(out.object, "error") = Get(call.recv, "error")
           /\ IsBareResult(call.recv) =>
                  LET built == IF Tag(call.recv) = "ok"
                               THEN Ok(call.recv.value) ELSE Err(call.recv.error)
                  IN  /\ out.object = built
                      /\ IsCapableResult(out.object)
                      /\ SameBehaviour(out.object, built, createBaseResult)
           /\ IsCapableResult(call.recv) => out.object = call.recv

C10_Witness ==
    /\ call.op = "optionFactory"
    /\ call.recv = [type |-> "some", value |-> Num1]
    /\ ReturnsObject(out)
    /\ out.object = Some(Num1)
    /\ Invoke(out.object, "unwrap", NoArgs) = Return(Num1, <<>>)

OptionMethods == DOMAIN createBaseOption

ResultMethods == DOMAIN createBaseResult

\* exactly one of the two tag predicates of o answers true
OneTag(o, yes, no) ==
    LET y == Invoke(o, yes, NoArgs)
        n == Invoke(o, no, NoArgs)
    IN  /\ y.kind = "return" /\ n.kind = "return"
        /\ {y.value, n.value} = {True, False}

\* o has one of the two tags of its family, the payload field of that tag,
\* and one tag predicate that answers true
WellTagged(o) ==
    /\ IsCapableOption(o) =>
           /\ OneTag(o, "some", "none")
           /\ ("value" \in DOMAIN o) = (Tag(o) = "some")
    /\ IsCapableResult(o) =>
           /\ OneTag(o, "ok", "err")
           /\ ("value" \in DOMAIN o) = (Tag(o) = "ok")
           /\ ("error" \in DOMAIN o) = (Tag(o) = "err")

\* the calls whose code returns this, and those whose code returns other
ReturnsReceiver(c) ==
    \/ c.op = "inspect"
    \/ c.op \in {"or", "orElse"} /\ Tag(c.recv) = "some"
    \/ c.op = "xor" /\ Tag(c.recv) = "some" /\ Tag(c.other) = "none"
    \/ c.op = "filter" /\ Tag(c.recv) = "some"
           /\ ApplyPredicate(c.fn, c.recv.value)

ReturnsOther(c) ==
    \/ c.op = "and" /\ Tag(c.recv) = "some"
    \/ c.op \in {"or", "orElse"} /\ Tag(c.recv) = "none"
    \/ c.op = "xor" /\ Tag(c.recv) = "none" /\ Tag(c.other) = "some"

\* C11: every Option or Result that is held or returned has exactly one
\* active tag, and a call leaves its receiver and its Option argument with
\* the tag and payload they had: after a call that returns a plain value or
\* fails, the held receiver equals the receiver before the call; a call that
\* returns its receiver or its other operand returns it as it was before.
C11_TagInvariant ==
    /\ WellTagged(obj)
    /\ WellTagged(origin)
    /\ ReturnsObject(out) => WellTagged(out.object)
    /\ (out.kind = "return" /\ "array" \in DOMAIN out) =>
           WellTagged(out.array[1]) /\ WellTagged(out.array[2])
    /\ (call.op \in OptionMethods \cup ResultMethods /\ ~ReturnsObject(out)) =>
           obj = call.recv
    /\ (IsCapableOption(call.recv) /\ ReturnsReceiver(call)) =>
           ReturnsObject(out) /\ out.object = call.recv
    /\ (IsCapableOption(call.recv) /\ ReturnsOther(call)) =>
           ReturnsObject(out) /\ out.object = call.other

C11_Witness ==
    /\ call.op = "unwrapOr"
    /\ call.recv = None
    /\ call.val = Num1
    /\ out = Return(Num1, <<>>)
    /\ obj = None
    /\ OneTag(obj, "some", "none")

\* C12: a.xor(b) is a when only a is Some, b when only b is Some, and None
\* when both or neither are Some.
C12_Xor ==
    (call.op = "xor" /\ IsCapableOption(call.recv)) =>
        /\ ReturnsObject(out)
        /\ out.object =
               IF Tag(call.recv) = "some" /\ Tag(call.other) = "none"
               THEN call.recv
               ELSE IF Tag(call.recv) = "none" /\ Tag(call.other) = "some"
                    THEN call.other
                    ELSE None

C12_Witness ==
    /\ call.op = "xor"
    /\ call.recv = Some(Num0)
    /\ call.other = Some(Num1)
    /\ ReturnsObject(out)
    /\ out.object = None

\* C13: p.zip(q) is Some([x, y]) when p is Some(x) and q is Some(y), None
\* otherwise; its unzip() is [Some(x), Some(y)] in the first case and
\* [None, None] otherwise; unzip of a Some of a pair gives the Somes of its
\* two elements.
C13_ZipUnzip ==
    /\ (call.op = "zip" /\ IsCapableOption(call.recv)) =>
           LET both == Tag(call.recv) = "some" /\ Tag(call.other) = "some"
               unzipped == Invoke(out.object, "unzip", NoArgs)
           IN  /\ ReturnsObject(out)
               /\ out.object = IF both
                               THEN Some(<<call.recv.value, call.other.value>>)
                               ELSE None
               /\ unzipped.kind = "return"
               /\ unzipped.array = IF both
                                   THEN <<Some(call.recv.value), Some(call.other.value)>>
                                   ELSE <<None, None>>
    /\ (call.op = "unzip" /\ IsCapableOption(call.recv)
            /\ ~IsPrim(Get(call.recv, "value"))) =>
           /\ out.kind = "return"
           /\ out.array = <<Some(call.recv.value[1]), Some(call.recv.value[2])>>
    /\ (call.op = "unzip" /\ IsCapableOption(call.recv)
            /\ Tag(call.recv) = "none") =>
           /\ out.kind = "return"
           /\ out.array = <<None, None>>

\* the pair <<'a', 1>> is built by zip only
C13_Witness ==
    /\ call.op = "unzip"
    /\ call.recv = Some(<<StrA, Num1>>)
    /\ origin = call.recv
    /\ out.kind = "return"
    /\ out.array = <<Some(StrA), Some(Num1)>>

\* C14: filter keeps a Some whose payload passes the predicate, gives None
\* when it does not pass, and on None gives None without calling the
\* predicate.
C14_Filter ==
    (call.op = "filter" /\ IsCapableOption(call.recv)) =>
        /\ ReturnsObject(out)
        /\ IF Tag(call.recv) = "some"
           THEN /\ out.object = IF ApplyPredicate(call.fn, call.recv.value)
                                THEN call.recv ELSE None
                /\ out.log = <<Invocation("predicate", <<call.recv.value>>)>>
           ELSE /\ out.object = None
                /\ Count(out.log, "predicate") = 0

C14_Witness ==
    /\ call.op = "filter"
    /\ call.fn = "isNumber"
    /\ call.recv = Some(StrA)
    /\ ReturnsObject(out)
    /\ out.object = None
    /\ Count(out.log, "predicate") = 1

\* C15: get() is Some(v) on Ok(v) and None on Err(e); fail() is Some(e) on
\* Err(e) and None on Ok(v); so exactly one of the two is Some, by the tag
\* alone (also for an undefined payload), and get() of an Err is the same
\* None for every error.
C15_ResultProjections ==
    (call.op \in {"get", "fail"} /\ IsCapableResult(call.recv)) =>
        LET got    == Invoke(call.recv, "get", NoArgs)
            failed == Invoke(call.recv, "fail", NoArgs)
        IN  /\ out = Invoke(call.recv, call.op, NoArgs)
            /\ ReturnsObject(got) /\ ReturnsObject(failed)
            /\ got.object = IF Tag(call.recv) = "ok"
                            THEN Some(call.recv.value) ELSE None
            /\ failed.object = IF Tag(call.recv) = "err"
                               THEN Some(call.recv.error) ELSE None
            /\ (Tag(got.object) = "some") # (Tag(failed.object) = "some")
            /\ Tag(call.recv) = "err" => 
                   got.object = Invoke(Err(Undefined), "get", NoArgs).object

C15_Witness ==
    /\ call.op = "fail"
    /\ call.recv = Err(Undefined)
    /\ ReturnsObject(out)
    /\ out.object = Some(Undefined)
    /\ Invoke(call.recv, "get", NoArgs).object = None

\* C16: mapOr and mapOrElse return Some(f(x)) on Some(x); on None they return
\* the fallback, or the supplied value, wrapped in Some, and never call f.
C16_MapOrWraps ==
    (call.op \in {"mapOr", "mapOrElse"} /\ IsCapableOption(call.recv)) =>
        /\ ReturnsObject(out)
        /\ Tag(out.object) = "some"
        /\ IF Tag(call.recv) = "some"
           THEN /\ out.object = Some(ApplyMapper(call.fn, call.recv.value))
                /\ Count(out.log, "mapper") = 1
           ELSE /\ out.object = Some(call.val)
                /\ Count(out.log, "mapper") = 0

C16_Witness ==
    /\ call.op = "mapOr"
    /\ call.recv = None
    /\ call.val = StrA
    /\ ReturnsObject(out)
    /\ out.object = Some(StrA)

\* C17: match runs exactly one arm, once: the some arm with the payload on a
\* Some, the none arm on a None, and returns what that arm returns.
C17_Match ==
    (call.op = "match" /\ IsCapableOption(call.recv)) =>
        IF Tag(call.recv) = "some"
        THEN out = Return(ApplyMapper(call.fn, call.recv.value),
                          <<Invocation("matcher.some", <<call.recv.value>>)>>)
        ELSE out = Return(call.val, <<Invocation("matcher.none", <<>>)>>)

C17_Witness ==
    /\ call.op = "match"
    /\ call.fn = "negate"
    /\ call.recv = Some(Num0)
    /\ out.kind = "return"
    /\ out.value = Num1
    /\ Count(out.log, "matcher.some") = 1
    /\ Count(out.log, "matcher.none") = 0

\* C18: inspect calls the callback once with the payload on a Some and never
\* on a None, and returns its receiver as it is.
C18_Inspect ==
    (call.op = "inspect" /\ IsCapableOption(call.recv)) =>
        /\ ReturnsObject(out)
        /\ out.object = call.recv
        /\ out.log = IF Tag(call.recv) = "some"
                     THEN <<Invocation("callback", <<call.recv.value>>)>>
                     ELSE <<>>

C18_Witness ==
    /\ call.op = "inspect"
    /\ call.recv = Some(Num1)
    /\ ReturnsObject(out)
    /\ out.object = Some(Num1)
    /\ out.log = <<Invocation("callback", <<Num1>>)>>

\* C19: Maybe(x) is None for undefined and null and Some(x) for every other
\* x, the falsy 0, '' and false included; Some(x) is a Some for every x, the
\* absent ones too, for which it only warns.
C19_Maybe ==
    /\ call.op = "Maybe" =>
           /\ ReturnsObject(out)
           /\ out.object = IF call.val \in {Undefined, Null}
                           THEN None ELSE Some(call.val)
           /\ Tag(out.object) = IF call.val \in {Undefined, Null}
                                THEN "none" ELSE "some"
           /\ Tag(out.object) = "some" => out.object.value = call.val
    /\ call.op = "Some" =>
           /\ ReturnsObject(out)
           /\ Tag(out.object) = "some"
           /\ out.object.value = call.val
           /\ Count(out.log, "console.warn") =
                  IF call.val \in {Undefined, Null} THEN 1 ELSE 0

C19_Witness ==
    /\ call.op = "Maybe"
    /\ call.val = Num0
    /\ ReturnsObject(out)
    /\ Tag(out.object) = "some"
    /\ out.object.value = Num0

\* C20: a.and(b) is b on a Some and None on a None; a.or(b) is a on a Some
\* and b on a None; a.orElse(s) is a on a Some and s() on a None; the chosen
\* operand is returned as it is.
C20_AndOr ==
    /\ (call.op = "and" /\ IsCapableOption(call.recv)) =>
           /\ ReturnsObject(out)
           /\ out.object = IF Tag(call.recv) = "some" THEN call.other ELSE None
    /\ (call.op \in {"or", "orElse"} /\ IsCapableOption(call.recv)) =>
           /\ ReturnsObject(out)
           /\ out.object = IF Tag(call.recv) = "some" THEN call.recv ELSE call.other

C20_Witness ==
    /\ call.op = "and"
    /\ call.recv = Some(Num0)
    /\ call.other = Some(Num1)
    /\ ReturnsObject(out)
    /\ out.object = Some(Num1)

\* C21: flatMap on Some(x) returns the Option that fn(x) returns, as it is
\* (None when fn(x) is None), calling fn once with x; on None it returns None
\* and does not call fn.
C21_FlatMap ==
    (call.op = "flatMap" /\ IsCapableOption(call.recv)) =>
        /\ ReturnsObject(out)
        /\ IF Tag(call.recv) = "some"
           THEN /\ Tag(out.object) = Tag(ApplyFlatMapper(call.fn, call.recv.value))
                /\ out.object = ApplyFlatMapper(call.fn, call.recv.value)
                /\ Count(out.log, "mapper") = 1
                /\ out.log[1] = Invocation("mapper", <<call.recv.value>>)
           ELSE /\ out.object = None
                /\ out.log = <<>>

C21_Witness ==
    /\ call.op = "flatMap"
    /\ call.fn = "drop"
    /\ call.recv = Some(Num1)
    /\ ReturnsObject(out)
    /\ out.object = None
    /\ Count(out.log, "mapper") = 1
====
